---- MODULE Spec2Model ----
(***************************************************************************)
(* A model of the price worker (src/src/index.ts): the cache-or-fetch      *)
(* series loader, the multi-symbol join, the weighted aggregation with     *)
(* interpolation, the gain/loss figure and the batch snapshot.             *)
(*                                                                         *)
(* Numbers.  A JavaScript number is modelled as a pair <<n, d>>: a finite  *)
(* value is the reduced fraction n/d with d >= 1, <<1, 0>> is Infinity,    *)
(* <<-1, 0>> is -Infinity and <<0, 0>> is NaN.  The worker's arithmetic is  *)
(* exact here wherever the specification allows a tolerance (1e-9); the    *)
(* rounding of each operation is modelled in the section on the            *)
(* aggregation in floating point, for the values that are to be exact.     *)
(* The sign of zero is not modelled.                                       *)
(*                                                                         *)
(* Time.  A timestamp is the integer number of milliseconds that           *)
(* new Date(s).getTime() yields for the provider's ISO string s.           *)
(***************************************************************************)
EXTENDS Integers, Sequences, FiniteSets, TLC

\* ------------------------------------------------------------------ bounds

\* Requests that may be in flight at the same time.
MaxReq == 1
\* Symbols of one multi-symbol request (and weights of one request: one more
\* is never needed to make the counts differ).
MaxSyms == 2
\* Points of one series the price source returns.
MaxPoints == 3
\* Instants of the provider's grid, in half steps of the interval: 0..MaxTick.
MaxTick == 3

\* ----------------------------------------------------------------- numbers

RECURSIVE GCD(_, _)
GCD(a, b) == IF b = 0 THEN a ELSE GCD(b, a % b)

Abs(x) == IF x < 0 THEN -x ELSE x
Sign(x) == IF x < 0 THEN -1 ELSE IF x > 0 THEN 1 ELSE 0

NaN == <<0, 0>>
PosInf == <<1, 0>>
NegInf == <<-1, 0>>
Zero == <<0, 1>>

\* The number n/d (d >= 0), reduced; n/0 is an infinity or NaN.
Norm(n, d) ==
    IF d = 0 THEN <<Sign(n), 0>>
    ELSE LET g == GCD(Abs(n), d) IN <<n \div g, d \div g>>

Num(i) == <<i, 1>>
IsFinite(a) == a[2] # 0

Add(a, b) ==
    IF a[2] = 0 /\ b[2] = 0 THEN (IF a = b THEN a ELSE NaN)
    ELSE Norm(a[1] * b[2] + b[1] * a[2], a[2] * b[2])

Neg(a) == <<-a[1], a[2]>>
Sub(a, b) == Add(a, Neg(b))
Mul(a, b) == Norm(a[1] * b[1], a[2] * b[2])

Div(a, b) ==
    IF b[1] < 0 THEN Norm(-(a[1] * b[2]), a[2] * (-b[1]))
    ELSE Norm(a[1] * b[2], a[2] * b[1])

\* a <= b, for finite a and b.
Leq(a, b) == a[1] * b[2] <= b[1] * a[2]

\* Number.isInteger
IsInteger(a) == a[2] = 1

RECURSIVE SumSeq(_)
SumSeq(s) == IF s = <<>> THEN Zero ELSE Add(SumSeq(SubSeq(s, 1, Len(s) - 1)), s[Len(s)])

\* Number(token) for the weight tokens of the model's requests.
ToNumber(tok) ==
    CASE tok = "0" -> Num(0)
      [] tok = "1" -> Num(1)
      [] tok = "40" -> Num(40)
      [] tok = "60" -> Num(60)
      [] tok = "0.5" -> Norm(1, 2)
      [] tok = "0.3" -> Norm(3, 10)
      [] tok = "1.0" -> Num(1)
      [] tok = "abc" -> NaN
      [] OTHER -> NaN

\* parseFloat(value) for the value strings of the model's price points.
ParseFloat(s) ==
    CASE s = "0" -> Num(0)
      [] s = "10" -> Num(10)
      [] s = "20" -> Num(20)
      [] s = "0.5" -> Norm(1, 2)
      [] s = "1" -> Num(1)
      [] s = "15" -> Num(15)
      [] OTHER -> NaN

\* --------------------------------------------------------------- intervals

ALLOWED_INTERVALS == <<"24h", "7d", "30d">>

isValidInterval(interval) == \E i \in 1..Len(ALLOWED_INTERVALS) : ALLOWED_INTERVALS[i] = interval

\* (query.interval as Interval) || '24h': an absent interval ("") is the default.
DefaultInterval(q) == IF q = "" THEN "24h" ELSE q

CACHE_TTL == 60 * 4

\* A key that leaves out the interval.
generateCacheKeyOfSymbol(symbol, interval) == <<"price", symbol, "24h">>

generateCacheKey(symbol, interval) == <<"price", symbol, interval>>

getTimeStep(interval) ==
    CASE interval = "24h" -> 5 * 60 * 1000
      [] interval = "7d" -> 60 * 60 * 1000
      [] interval = "30d" -> 24 * 60 * 60 * 1000
      [] OTHER -> 5 * 60 * 1000

\* ------------------------------------------------------------------ ratios

MapToNumber(ratios) == [i \in 1..Len(ratios) |-> ToNumber(ratios[i])]

\* Weights that are never divided by their sum.
processRatiosAsIs(ratios) == MapToNumber(ratios)

processRatios(ratios) ==
    LET numbers == MapToNumber(ratios)
        allIntegers == \A i \in 1..Len(numbers) : IsInteger(numbers[i])
        total == SumSeq(numbers)
    IN  IF allIntegers
        THEN [i \in 1..Len(numbers) |-> Div(numbers[i], total)]
        ELSE numbers

\* ------------------------------------------------------------- aggregation

\* Math.min() and Math.max() of no arguments are Infinity and -Infinity: a
\* timestamp beyond every timestamp of the model stands for Infinity.
INFINITY_TS == 1073741824

SetMin(S) == IF S = {} THEN INFINITY_TS ELSE CHOOSE x \in S : \A y \in S : x <= y
SetMax(S) == IF S = {} THEN -INFINITY_TS ELSE CHOOSE x \in S : \A y \in S : x >= y

\* data.data.map(point => new Date(point.timestamp).getTime()), as a set.
TimestampsOf(priceData) == {priceData.data[i].timestamp : i \in 1..Len(priceData.data)}

MinTimestamp(priceDataList) ==
    SetMax({SetMin(TimestampsOf(priceDataList[i])) : i \in 1..Len(priceDataList)})

MaxTimestamp(priceDataList) ==
    SetMin({SetMax(TimestampsOf(priceDataList[i])) : i \in 1..Len(priceDataList)})

\* A timeline that stops before maxTimestamp.
TimelineExclusive(minTimestamp, maxTimestamp, timeStep) ==
    IF minTimestamp >= maxTimestamp THEN <<>>
    ELSE [k \in 1..((maxTimestamp - minTimestamp - 1) \div timeStep + 1) |->
            minTimestamp + (k - 1) * timeStep]

\* for (let t = minTimestamp; t <= maxTimestamp; t += timeStep) timestamps.push(t)
Timeline(minTimestamp, maxTimestamp, timeStep) ==
    IF minTimestamp > maxTimestamp THEN <<>>
    ELSE [k \in 1..((maxTimestamp - minTimestamp) \div timeStep + 1) |->
            minTimestamp + (k - 1) * timeStep]

\* The Map of one series: a later point with the same timestamp replaces an
\* earlier one.
PriceMap(priceData) ==
    [t \in TimestampsOf(priceData) |->
        LET last == SetMax({i \in 1..Len(priceData.data) : priceData.data[i].timestamp = t})
        IN  ParseFloat(priceData.data[last].value)]

RECURSIVE SortedSeq(_)
SortedSeq(S) == IF S = {} THEN <<>> ELSE LET m == SetMin(S) IN <<m>> \o SortedSeq(S \ {m})

\* Array.from(priceMap.entries()).filter(in the window).sort(by time): a
\* sequence of <<time, value>>.
AvailablePrices(priceData, minTimestamp, maxTimestamp) ==
    LET map == PriceMap(priceData)
        ts == SortedSeq({t \in DOMAIN map : t >= minTimestamp /\ t <= maxTimestamp})
    IN  [i \in 1..Len(ts) |-> <<ts[i], map[ts[i]]>>]

\* The pair <<lowerPoint, upperPoint>> the loop leaves: the first adjacent
\* pair that brackets the timestamp, or else the first and the last point.
Bracket(availablePrices, timestamp) ==
    LET n == Len(availablePrices)
        hits == {i \in 1..(n - 1) : availablePrices[i][1] <= timestamp
                                    /\ availablePrices[i + 1][1] >= timestamp}
    IN  IF hits = {} THEN <<availablePrices[1], availablePrices[n]>>
        ELSE <<availablePrices[SetMin(hits)], availablePrices[SetMin(hits) + 1]>>

\* Linear interpolation between the bracket's points.
Interpolate(availablePrices, timestamp) ==
    LET b == Bracket(availablePrices, timestamp)
        lowerPoint == b[1]
        upperPoint == b[2]
        timeDiff == upperPoint[1] - lowerPoint[1]
        valueDiff == Sub(upperPoint[2], lowerPoint[2])
        ratio == IF timeDiff = 0 THEN Zero
                 ELSE Div(Num(timestamp - lowerPoint[1]), Num(timeDiff))
    IN  Add(lowerPoint[2], Mul(valueDiff, ratio))

RECURSIVE WeightedSum(_, _, _)
\* priceMaps.reduce((sum, priceMap, i) => sum + (value_i * ratioList[i]) / totalRatio, 0)
WeightedSum(values, ratioList, n) ==
    IF n = 0 THEN Zero
    ELSE Add(WeightedSum(values, ratioList, n - 1),
             Div(Mul(values[n], ratioList[n]), SumSeq(ratioList)))

\* The second half of getWeightedPrices, on the loaded series: the aligned
\* points, or the error thrown for a series with no point in the window.
WeightedData(priceDataList, ratioList, interval) ==
    LET minTimestamp == MinTimestamp(priceDataList)
        maxTimestamp == MaxTimestamp(priceDataList)
        timestamps == Timeline(minTimestamp, maxTimestamp, getTimeStep(interval))
        n == Len(priceDataList)
        av == [i \in 1..n |-> AvailablePrices(priceDataList[i], minTimestamp, maxTimestamp)]
    IN  IF timestamps # <<>> /\ \E i \in 1..n : av[i] = <<>>
        THEN [ok |-> FALSE, error |-> "No price data available", data |-> <<>>]
        ELSE [ok |-> TRUE, error |-> "",
              data |-> [k \in 1..Len(timestamps) |->
                  [value |-> WeightedSum([i \in 1..n |-> Interpolate(av[i], timestamps[k])],
                                         ratioList, n),
                   timestamp |-> timestamps[k]]]]

\* ((lastValue - firstValue) / firstValue) * 100
Pnl(firstValue, lastValue) == Mul(Div(Sub(lastValue, firstValue), firstValue), Num(100))

\* ------------------------------------------------------------------- state

VARIABLES
    env,      \* the worker's bindings: [hasCache, hasKey]
    cache,    \* the KV namespace PRICE_CACHE: key -> entry
    req,      \* the requests in flight: slot -> request
    client,   \* a caller that calls getSeries twice in succession
    sched,    \* the run of the scheduled pre-caching: its state and its tasks
    calc      \* one aggregation of loaded series, computed in floating point

vars == <<env, cache, req, client, sched, calc>>

Slots == 1..MaxReq
Symbols == {"BTC", "ETH"}
\* const symbols = ['BTC', 'ETH', 'BNB', 'SOL'] of the scheduled pre-caching.
ScheduledSymbols == <<"BTC", "ETH", "BNB", "SOL">>
Keys ==
    {generateCacheKey(s, ALLOWED_INTERVALS[i]) :
        s \in Symbols \cup {ScheduledSymbols[j] : j \in 1..Len(ScheduledSymbols)},
        i \in 1..Len(ALLOWED_INTERVALS)}

NoData == [symbol |-> "", data |-> <<>>]
NoEntry == [present |-> FALSE, value |-> NoData, ttl |-> 0]
NoResp == [status |-> 0, error |-> "", data |-> <<>>, pnl |-> <<>>, values |-> {}, timestamp |-> 0]
IdleReq == [kind |-> "idle", symbols |-> <<>>, ratios |-> <<>>, ratioList |-> <<>>,
            interval |-> "", loads |-> <<>>, resp |-> NoResp]

\* The error messages the handlers report.
ErrNoCache == "Cache binding not configured"
ErrNoKey == "Alchemy API key not configured"
ErrFetch == "Failed to fetch price from Alchemy"
ErrNoData == "No price data available for symbol"
ErrKvGet == "KV get failed"
ErrKvPut == "KV put failed"
ErrType == "Cannot read properties of undefined"

ErrorResp(status, message) == [NoResp EXCEPT !.status = status, !.error = message]

\* One operation of a load on a port, as the load's log keeps it: whether it
\* succeeded, and the series it returned (get, fetch) or was given (put).
Op(name, key, ok, value, ttl) ==
    [op |-> name, key |-> key, ok |-> ok, value |-> value, ttl |-> ttl]

\* A put that stores nothing.
CachePutLost(c, key, priceData) == c

\* env.PRICE_CACHE.put(cacheKey, JSON.stringify(priceData), {expirationTtl: CACHE_TTL})
CachePut(c, key, priceData) ==
    [c EXCEPT ![key] = [present |-> TRUE, value |-> priceData, ttl |-> CACHE_TTL]]

\* ----------------------------------------------------------- the responses

\* The body of GET /price/:symbol.
PriceResponse(priceData) ==
    [NoResp EXCEPT !.status = 200,
        !.data = [i \in 1..Len(priceData.data) |->
                    [value |-> ParseFloat(priceData.data[i].value),
                     timestamp |-> priceData.data[i].timestamp]]]

\* The body of GET /aggregate.
AggregateResponse(priceDataList, ratioList, interval) ==
    LET weightedData == WeightedData(priceDataList, ratioList, interval)
    IN  IF weightedData.ok
        THEN [NoResp EXCEPT !.status = 200, !.data = weightedData.data]
        ELSE ErrorResp(500, weightedData.error)

\* The body of GET /aggregate/pnl: weightedData[0] of an empty list is
\* undefined, and reading its value throws a TypeError.
PnlResponse(priceDataList, ratioList) ==
    LET weightedData == WeightedData(priceDataList, ratioList, "30d")
        d == weightedData.data
    IN  IF ~weightedData.ok THEN ErrorResp(500, weightedData.error)
        ELSE IF d = <<>> THEN ErrorResp(500, ErrType)
        ELSE [NoResp EXCEPT !.status = 200,
                !.pnl = <<[pnl |-> Pnl(d[1].value, d[Len(d)].value),
                           firstValue |-> d[1].value,
                           lastValue |-> d[Len(d)].value,
                           firstTimestamp |-> d[1].timestamp,
                           lastTimestamp |-> d[Len(d)].timestamp]>>]

\* symbol.toLowerCase()
ToLowerCase(s) ==
    CASE s = "BTC" -> "btc"
      [] s = "ETH" -> "eth"
      [] OTHER -> s

\* A snapshot of each series' newest point, whatever its position.
BatchResponseNewest(symbolList, priceDataList) ==
    LET n == Len(priceDataList)
        newest(i) == CHOOSE pt \in {priceDataList[i].data[k] : k \in 1..Len(priceDataList[i].data)} :
                        pt.timestamp = SetMax(TimestampsOf(priceDataList[i]))
    IN  IF \E i \in 1..n : priceDataList[i].data = <<>> THEN ErrorResp(500, ErrType)
        ELSE [NoResp EXCEPT !.status = 200,
                !.timestamp = SetMax({newest(i).timestamp : i \in 1..n}),
                !.values = {<<ToLowerCase(symbolList[i]), ParseFloat(newest(i).value)>> :
                               i \in {j \in 1..n : \A k \in (j + 1)..n :
                                        ToLowerCase(symbolList[k]) # ToLowerCase(symbolList[j])}}]

\* The body of GET /batch: the last point of each series; a later symbol with
\* the same lower-cased name replaces an earlier one.
BatchResponse(symbolList, priceDataList) ==
    LET n == Len(priceDataList)
        latest(i) == priceDataList[i].data[Len(priceDataList[i].data)]
    IN  IF \E i \in 1..n : priceDataList[i].data = <<>> THEN ErrorResp(500, ErrType)
        ELSE [NoResp EXCEPT !.status = 200,
                !.timestamp = SetMax({latest(i).timestamp : i \in 1..n}),
                !.values = {<<ToLowerCase(symbolList[i]), ParseFloat(latest(i).value)>> :
                               i \in {j \in 1..n : \A k \in (j + 1)..n :
                                        ToLowerCase(symbolList[k]) # ToLowerCase(symbolList[j])}}]

\* --------------------------------------------------------------- the loads

\* A load is one run of the cache-or-fetch path for one symbol.  Its pc is the
\* port operation it has issued and is waiting for ("read", "fetch", "write"),
\* or "done" or "failed"; "idle" is a load that has not been started.
NewLoad(symbol, pc, error) ==
    [symbol |-> symbol, pc |-> pc, data |-> NoData, error |-> error, log |-> <<>>]

\* symbolList.map(async (symbol) => { ... }): every callback runs up to its
\* first await, so every load has issued its cache read (or has thrown for the
\* missing binding) when map returns and Promise.all starts to wait.
StartLoads(symbolList, hasCache) ==
    [i \in 1..Len(symbolList) |->
        IF hasCache THEN NewLoad(symbolList[i], "read", "")
        ELSE NewLoad(symbolList[i], "failed", ErrNoCache)]

PriceDataList(q) == [i \in 1..Len(q.loads) |-> q.loads[i].data]

\* What the handler computes once Promise.all has resolved.
Result(q) ==
    CASE q.kind = "price" -> PriceResponse(q.loads[1].data)
      [] q.kind = "aggregate" -> AggregateResponse(PriceDataList(q), q.ratioList, q.interval)
      [] q.kind = "pnl" -> PnlResponse(PriceDataList(q), q.ratioList)
      [] q.kind = "batch" -> BatchResponse(q.symbols, PriceDataList(q))
      [] OTHER -> NoResp

AllDone(q) == \A i \in 1..Len(q.loads) : q.loads[i].pc = "done"
Failed(q) == {i \in 1..Len(q.loads) : q.loads[i].pc = "failed"}

\* A join that waits for every load to settle and answers from those that
\* resolved.
SettleAllSettled(q) ==
    IF q.resp.status # 0 THEN q
    ELSE IF \A i \in 1..Len(q.loads) : q.loads[i].pc \in {"done", "failed"}
         THEN [q EXCEPT !.resp = Result(q)]
    ELSE q

\* Promise.all and the handler's try/catch: the first rejection is the
\* request's response (500), and the result is computed when every load has
\* resolved.  The continuation runs before any other port operation completes.
Settle(q) ==
    IF q.resp.status # 0 THEN q
    ELSE IF Failed(q) # {}
         THEN [q EXCEPT !.resp = ErrorResp(500, q.loads[SetMin(Failed(q))].error)]
    ELSE IF AllDone(q) THEN [q EXCEPT !.resp = Result(q)]
    ELSE q

\* A request whose parameters passed validation starts its loads.
Launch(kind, symbolList, ratios, ratioList, interval) ==
    Settle([kind |-> kind, symbols |-> symbolList, ratios |-> ratios,
            ratioList |-> ratioList, interval |-> interval,
            loads |-> StartLoads(symbolList, env.hasCache), resp |-> NoResp])

\* A request that validation rejected: no load is started.
Reject(kind, symbolList, ratios, interval, message) ==
    [IdleReq EXCEPT !.kind = kind, !.symbols = symbolList, !.ratios = ratios,
                    !.interval = interval, !.resp = ErrorResp(400, message)]

\* --------------------------------------------------------------- handlers

\* GET /price/:symbol, up to its first await.
PriceRequest(symbol, interval) ==
    LET iv == DefaultInterval(interval)
    IN  IF ~isValidInterval(iv)
        THEN Reject("price", <<symbol>>, <<>>, iv, "Invalid interval")
        ELSE Launch("price", <<symbol>>, <<>>, <<>>, iv)

StartPrice(r, symbol, interval) ==
    /\ req[r].kind = "idle"
    /\ req' = [req EXCEPT ![r] = PriceRequest(symbol, interval)]
    /\ UNCHANGED <<env, cache, client, sched, calc>>

\* GET /aggregate.  An absent or empty parameter is the empty list; split(',')
\* of a non-empty string has at least one element.
\* /aggregate without the comparison of the two counts.
AggregateRequestNoCount(symbolList, ratios, interval) ==
    LET iv == DefaultInterval(interval)
    IN  IF symbolList = <<>> \/ ratios = <<>>
        THEN Reject("aggregate", symbolList, ratios, iv, "Missing required parameters")
        ELSE IF ~isValidInterval(iv)
        THEN Reject("aggregate", symbolList, ratios, iv, "Invalid interval")
        ELSE Launch("aggregate", symbolList, ratios, processRatios(ratios), iv)

AggregateRequest(symbolList, ratios, interval) ==
    LET iv == DefaultInterval(interval)
        ratioList == processRatios(ratios)
    IN  IF symbolList = <<>> \/ ratios = <<>>
        THEN Reject("aggregate", symbolList, ratios, iv, "Missing required parameters")
        ELSE IF Len(symbolList) # Len(ratioList)
        THEN Reject("aggregate", symbolList, ratios, iv,
                    "Number of symbols must match number of ratios")
        ELSE IF ~isValidInterval(iv)
        THEN Reject("aggregate", symbolList, ratios, iv, "Invalid interval")
        ELSE Launch("aggregate", symbolList, ratios, ratioList, iv)

StartAggregate(r, symbolList, ratios, interval) ==
    /\ req[r].kind = "idle"
    /\ req' = [req EXCEPT ![r] = AggregateRequest(symbolList, ratios, interval)]
    /\ UNCHANGED <<env, cache, client, sched, calc>>

\* GET /aggregate/pnl: always over '30d'.
PnlRequest(symbolList, ratios) ==
    LET ratioList == processRatios(ratios)
    IN  IF symbolList = <<>> \/ ratios = <<>>
        THEN Reject("pnl", symbolList, ratios, "30d", "Missing required parameters")
        ELSE IF Len(symbolList) # Len(ratioList)
        THEN Reject("pnl", symbolList, ratios, "30d",
                    "Number of symbols must match number of ratios")
        ELSE Launch("pnl", symbolList, ratios, ratioList, "30d")

StartPnl(r, symbolList, ratios) ==
    /\ req[r].kind = "idle"
    /\ req' = [req EXCEPT ![r] = PnlRequest(symbolList, ratios)]
    /\ UNCHANGED <<env, cache, client, sched, calc>>

\* GET /batch
BatchRequest(symbolList, interval) ==
    LET iv == DefaultInterval(interval)
    IN  IF symbolList = <<>>
        THEN Reject("batch", symbolList, <<>>, iv, "Missing required parameter")
        ELSE IF ~isValidInterval(iv)
        THEN Reject("batch", symbolList, <<>>, iv, "Invalid interval")
        ELSE Launch("batch", symbolList, <<>>, <<>>, iv)

StartBatch(r, symbolList, interval) ==
    /\ req[r].kind = "idle"
    /\ req' = [req EXCEPT ![r] = BatchRequest(symbolList, interval)]
    /\ UNCHANGED <<env, cache, client, sched, calc>>

\* ------------------------------------------------------ the steps of a load

KeyOf(r, i) == generateCacheKey(req[r].loads[i].symbol, req[r].interval)

Pending(r, i, pc) ==
    /\ req[r].kind # "idle"
    /\ i \in 1..Len(req[r].loads)
    /\ req[r].loads[i].pc = pc

\* A read that takes a hit for a miss.
AfterReadRefetch(load, key, entry, hasKey) ==
    LET logged == [load EXCEPT !.log = Append(@, Op("get", key, TRUE, entry.value, 0))]
    IN  IF ~hasKey THEN [logged EXCEPT !.pc = "failed", !.error = ErrNoKey]
        ELSE [logged EXCEPT !.pc = "fetch"]

\* The load's next state when its cache read returns `entry`: a hit ends the
\* load; on a miss fetchPriceFromAlchemy checks the key and issues the fetch.
AfterRead(load, key, entry, hasKey) ==
    LET logged == [load EXCEPT !.log = Append(@, Op("get", key, TRUE, entry.value, 0))]
    IN  IF entry.present THEN [logged EXCEPT !.pc = "done", !.data = entry.value]
        ELSE IF ~hasKey THEN [logged EXCEPT !.pc = "failed", !.error = ErrNoKey]
        ELSE [logged EXCEPT !.pc = "fetch"]

\* A fetch that is tried again when the response is not ok.
AfterFetchRetry(load, key, response) ==
    LET logged == [load EXCEPT !.log = Append(@,
                      Op("fetch", key, response.ok,
                         [symbol |-> load.symbol, data |-> response.data], 0))]
    IN  IF ~response.ok THEN logged
        ELSE IF Len(response.data) = 0 THEN [logged EXCEPT !.pc = "failed", !.error = ErrNoData]
        ELSE [logged EXCEPT !.pc = "write",
                            !.data = [symbol |-> load.symbol, data |-> response.data]]

\* A fetch whose result is not checked for points.
AfterFetchUnchecked(load, key, response) ==
    LET logged == [load EXCEPT !.log = Append(@,
                      Op("fetch", key, response.ok,
                         [symbol |-> load.symbol, data |-> response.data], 0))]
    IN  IF ~response.ok THEN [logged EXCEPT !.pc = "failed", !.error = ErrFetch]
        ELSE [logged EXCEPT !.pc = "write",
                            !.data = [symbol |-> load.symbol, data |-> response.data]]

\* The load's next state when the price source answers: a response that is
\* not ok, or one with no points, throws; any other is handed to setCachedPrice.
AfterFetch(load, key, response) ==
    LET logged == [load EXCEPT !.log = Append(@,
                      Op("fetch", key, response.ok,
                         [symbol |-> load.symbol, data |-> response.data], 0))]
    IN  IF ~response.ok THEN [logged EXCEPT !.pc = "failed", !.error = ErrFetch]
        ELSE IF Len(response.data) = 0 THEN [logged EXCEPT !.pc = "failed", !.error = ErrNoData]
        ELSE [logged EXCEPT !.pc = "write",
                            !.data = [symbol |-> load.symbol, data |-> response.data]]

\* The load's next state when its cache write has been made.
AfterWrite(load, key) ==
    [load EXCEPT !.pc = "done", !.log = Append(@, Op("put", key, TRUE, load.data, CACHE_TTL))]

\* await env.PRICE_CACHE.get(cacheKey, {type: 'json'}) returns.
GetCachedPrice(r, i) ==
    /\ Pending(r, i, "read")
    /\ req' = [req EXCEPT ![r] = Settle([@ EXCEPT !.loads[i] =
                AfterRead(@, KeyOf(r, i), cache[KeyOf(r, i)], env.hasKey)])]
    /\ UNCHANGED <<env, cache, client, sched, calc>>

\* The cache read throws.
GetCachedPriceFails(r, i) ==
    /\ Pending(r, i, "read")
    /\ req' = [req EXCEPT ![r] = Settle([@ EXCEPT !.loads[i] =
                [@ EXCEPT !.pc = "failed", !.error = ErrKvGet,
                          !.log = Append(@, Op("get", KeyOf(r, i), FALSE, NoData, 0))]])]
    /\ UNCHANGED <<env, cache, client, sched, calc>>

\* await fetch(...) returns `response`.
FetchPriceFromAlchemy(r, i, response) ==
    /\ Pending(r, i, "fetch")
    /\ req' = [req EXCEPT ![r] = Settle([@ EXCEPT !.loads[i] =
                AfterFetch(@, KeyOf(r, i), response)])]
    /\ UNCHANGED <<env, cache, client, sched, calc>>

\* await env.PRICE_CACHE.put(...) returns.
SetCachedPrice(r, i) ==
    /\ Pending(r, i, "write")
    /\ cache' = CachePut(cache, KeyOf(r, i), req[r].loads[i].data)
    /\ req' = [req EXCEPT ![r] = Settle([@ EXCEPT !.loads[i] = AfterWrite(@, KeyOf(r, i))])]
    /\ UNCHANGED <<env, client, sched, calc>>

\* The cache write throws.
SetCachedPriceFails(r, i) ==
    /\ Pending(r, i, "write")
    /\ req' = [req EXCEPT ![r] = Settle([@ EXCEPT !.loads[i] =
                [@ EXCEPT !.pc = "failed", !.error = ErrKvPut,
                          !.log = Append(@, Op("put", KeyOf(r, i), FALSE,
                                              req[r].loads[i].data, CACHE_TTL))]])]
    /\ UNCHANGED <<env, cache, client, sched, calc>>

\* The response has been sent: the request ends, and with it whatever loads
\* were still pending after a failure.
Finish(r) ==
    /\ req[r].resp.status # 0
    /\ req' = [req EXCEPT ![r] = IdleReq]
    /\ UNCHANGED <<env, cache, client, sched, calc>>

\* The entry's TTL runs out.
Expire(key) ==
    /\ cache[key].present
    /\ cache' = [cache EXCEPT ![key] = NoEntry]
    /\ UNCHANGED <<env, req, client, sched, calc>>

\* ------------------------------------------------------------------ inputs

\* The provider's instants for an interval: multiples of half its step.
Half(interval) == getTimeStep(interval) \div 2
Grid(interval) == {k * Half(interval) : k \in 0..MaxTick}
ValueTokens == {"0", "10"}

Point(t, v) == [timestamp |-> t, value |-> v]

\* The series with the instants T, in ascending order, and the values f.
SeriesOf(T, f) == LET ts == SortedSeq(T) IN [i \in 1..Len(ts) |-> Point(ts[i], f[ts[i]])]

\* Every chronological series of 1..MaxPoints points on the grid.
AllSeries(interval) ==
    UNION {{SeriesOf(T, f) : f \in [T -> ValueTokens]} :
             T \in {U \in SUBSET Grid(interval) : Cardinality(U) \in 1..MaxPoints}}

\* The series the price source returns in the specification of the whole
\* worker: two that overlap in one instant only, to keep that one small.
SysSeries(interval) ==
    {<<Point(0, "10"), Point(2 * Half(interval), "0")>>,
     <<Point(2 * Half(interval), "10")>>}

\* What the price source may answer: an error status, no points, or a series.
Responses(series) ==
    {[ok |-> FALSE, data |-> <<>>], [ok |-> TRUE, data |-> <<>>]}
        \cup {[ok |-> TRUE, data |-> d] : d \in series}

SeqsUpTo(S, n) == UNION {[1..k -> S] : k \in 0..n}

SymbolLists == SeqsUpTo(Symbols, MaxSyms)
SysRatioLists == {<<>>, <<"1">>, <<"60", "40">>}
SysIntervals == {"", "30d", "1y"}

\* ------------------------------------------------- the worker as a whole

IdleClient == [busy |-> FALSE, symbol |-> "", interval |-> "", results |-> <<>>]
IdleSched == [state |-> "idle", loads |-> <<>>]
IdleCalc == [pc |-> "idle", priceDataList |-> <<>>, ratios |-> <<>>, interval |-> "", data |-> <<>>]

Init ==
    /\ env \in [hasCache : BOOLEAN, hasKey : BOOLEAN]
    /\ cache = [k \in Keys |-> NoEntry]
    /\ req = [r \in Slots |-> IdleReq]
    /\ client = IdleClient
    /\ sched = IdleSched
    /\ calc = IdleCalc

Next ==
    \/ \E r \in Slots, symbol \in Symbols, interval \in SysIntervals :
            StartPrice(r, symbol, interval)
    \/ \E r \in Slots, symbolList \in SymbolLists, ratios \in SysRatioLists,
            interval \in SysIntervals :
            StartAggregate(r, symbolList, ratios, interval)
    \/ \E r \in Slots, symbolList \in SymbolLists, ratios \in SysRatioLists :
            StartPnl(r, symbolList, ratios)
    \/ \E r \in Slots, symbolList \in SymbolLists, interval \in SysIntervals :
            StartBatch(r, symbolList, interval)
    \/ \E r \in Slots, i \in 1..MaxSyms : GetCachedPrice(r, i)
    \/ \E r \in Slots, i \in 1..MaxSyms : GetCachedPriceFails(r, i)
    \/ \E r \in Slots, i \in 1..MaxSyms :
            \E response \in Responses(SysSeries(req[r].interval)) :
                FetchPriceFromAlchemy(r, i, response)
    \/ \E r \in Slots, i \in 1..MaxSyms : SetCachedPrice(r, i)
    \/ \E r \in Slots, i \in 1..MaxSyms : SetCachedPriceFails(r, i)
    \/ \E r \in Slots : Finish(r)
    \/ \E key \in Keys : Expire(key)

Spec == Init /\ [][Next]_vars

\* ------------------------------------- getSeries, twice in succession

\* The caller of the specification's idempotence test: on an empty cache it
\* calls getSeries (GET /price/:symbol) and, once that has returned
\* successfully, calls it again for the same symbol and interval; results
\* keeps what each call returned and how often it fetched.
Fetches(q) ==
    Cardinality({<<i, k>> \in (1..Len(q.loads)) \X (1..3) :
                    k <= Len(q.loads[i].log) /\ q.loads[i].log[k].op = "fetch"})

ClientCall(symbol, interval) ==
    /\ ~client.busy
    /\ req[1].kind = "idle"
    /\ Len(client.results) < 2
    /\ client.results # <<>> => (symbol = client.symbol /\ interval = client.interval)
    /\ req' = [req EXCEPT ![1] = PriceRequest(symbol, interval)]
    /\ client' = [client EXCEPT !.busy = TRUE, !.symbol = symbol, !.interval = interval]
    /\ UNCHANGED <<env, cache, sched, calc>>

ClientReturn ==
    /\ client.busy
    /\ req[1].resp.status # 0
    /\ client' =
          IF client.results = <<>> /\ req[1].resp.status # 200 THEN IdleClient
          ELSE [client EXCEPT !.busy = FALSE,
                  !.results = Append(@, [status |-> req[1].resp.status,
                                         error |-> req[1].resp.error,
                                         data |-> req[1].resp.data,
                                         fetches |-> Fetches(req[1])])]
    /\ req' = [req EXCEPT ![1] = IdleReq]
    /\ UNCHANGED <<env, cache, sched, calc>>

ValidIntervals == {ALLOWED_INTERVALS[i] : i \in 1..Len(ALLOWED_INTERVALS)}

NextTwice ==
    \/ \E symbol \in Symbols, interval \in ValidIntervals : ClientCall(symbol, interval)
    \/ GetCachedPrice(1, 1)
    \/ GetCachedPriceFails(1, 1)
    \/ \E response \in Responses(AllSeries(req[1].interval)) :
            FetchPriceFromAlchemy(1, 1, response)
    \/ SetCachedPrice(1, 1)
    \/ SetCachedPriceFails(1, 1)
    \/ ClientReturn

SpecTwice == Init /\ [][NextTwice]_vars

\* ------------------------------------------- aggregation on loaded series

\* The cache holds a series for each symbol at one interval; requests for
\* that interval are served from it, so that the aggregation is applied to
\* every pair of chronological series of the grid.
CacheOf(interval, series) ==
    [k \in Keys |->
        IF \E sym \in Symbols : k = generateCacheKey(sym, interval)
        THEN [present |-> TRUE, value |-> [symbol |-> k[2], data |-> series[k[2]]],
              ttl |-> CACHE_TTL]
        ELSE NoEntry]

Cached(interval) == \A sym \in Symbols : cache[generateCacheKey(sym, interval)].present

AggSymbolLists == {<<"BTC">>, <<"BTC", "ETH">>}
AggRatioLists ==
    {<<"1">>, <<"1.0">>, <<"0.5">>, <<"abc">>,
     <<"60", "40">>, <<"0.5", "0.3">>, <<"0.5", "0.5">>, <<"0", "0">>}

InitAgg ==
    /\ env = [hasCache |-> TRUE, hasKey |-> TRUE]
    /\ \E interval \in ValidIntervals :
          \E series \in [Symbols -> AllSeries(interval)] :
              cache = CacheOf(interval, series)
    /\ req = [r \in Slots |-> IdleReq]
    /\ client = IdleClient
    /\ sched = IdleSched
    /\ calc = IdleCalc

NextAgg ==
    \/ \E symbolList \in AggSymbolLists, ratios \in AggRatioLists,
            interval \in ValidIntervals :
            Cached(interval) /\ StartAggregate(1, symbolList, ratios, interval)
    \/ \E symbolList \in AggSymbolLists, ratios \in AggRatioLists :
            Cached("30d") /\ StartPnl(1, symbolList, ratios)
    \/ \E i \in 1..MaxSyms : GetCachedPrice(1, i)
    \/ Finish(1)

SpecAgg == InitAgg /\ [][NextAgg]_vars

\* ---------------------------------------------- the scheduled pre-caching

\* The interval of the scheduled pre-caching.
ScheduledInterval == "30d"

ScheduledKey(i) == generateCacheKey(sched.loads[i].symbol, ScheduledInterval)

\* One task of scheduled, up to its first await: fetchPriceFromAlchemy throws
\* for the missing API key, which the task's catch logs, or issues the fetch.
\* There is no cache read.
StartTask(symbol, hasKey) ==
    IF hasKey THEN NewLoad(symbol, "fetch", "")
    ELSE NewLoad(symbol, "failed", ErrNoKey)

StartTasks(symbols, hasKey) == [i \in 1..Len(symbols) |-> StartTask(symbols[i], hasKey)]

\* A run that rejects as soon as one of its tasks has failed.
SettleScheduledUncaught(s) ==
    IF \E i \in 1..Len(s.loads) : s.loads[i].pc = "failed"
    THEN [s EXCEPT !.state = "rejected"]
    ELSE IF \A i \in 1..Len(s.loads) : s.loads[i].pc = "done"
    THEN [s EXCEPT !.state = "resolved"]
    ELSE s

\* Promise.all over tasks that each catch their own error: no task rejects,
\* and the run resolves when every task is over.
SettleScheduled(s) ==
    IF \A i \in 1..Len(s.loads) : s.loads[i].pc \in {"done", "failed"}
    THEN [s EXCEPT !.state = "resolved"]
    ELSE s

\* The task's next state when the price source answers: as in a load, and
\* then setCachedPrice throws for the missing cache binding or issues the put.
TaskAfterFetch(load, key, response, hasCache) ==
    LET fetched == AfterFetch(load, key, response)
    IN  IF fetched.pc = "write" /\ ~hasCache
        THEN [fetched EXCEPT !.pc = "failed", !.error = ErrNoCache]
        ELSE fetched

TaskPending(i, pc) ==
    /\ sched.state = "running"
    /\ i \in 1..Len(sched.loads)
    /\ sched.loads[i].pc = pc

\* The scheduler invokes scheduled; one run at a time.
Scheduled ==
    /\ sched.state # "running"
    /\ sched' = SettleScheduled([state |-> "running",
                                 loads |-> StartTasks(ScheduledSymbols, env.hasKey)])
    /\ UNCHANGED <<env, cache, req, client, calc>>

\* await fetch(...) of task i returns `response`.
ScheduledFetch(i, response) ==
    /\ TaskPending(i, "fetch")
    /\ sched' = SettleScheduled([sched EXCEPT !.loads[i] =
                    TaskAfterFetch(@, ScheduledKey(i), response, env.hasCache)])
    /\ UNCHANGED <<env, cache, req, client, calc>>

\* await env.PRICE_CACHE.put(...) of task i returns.
ScheduledPut(i) ==
    /\ TaskPending(i, "write")
    /\ cache' = CachePut(cache, ScheduledKey(i), sched.loads[i].data)
    /\ sched' = SettleScheduled([sched EXCEPT !.loads[i] = AfterWrite(@, ScheduledKey(i))])
    /\ UNCHANGED <<env, req, client, calc>>

\* The cache write of task i throws.
ScheduledPutFails(i) ==
    /\ TaskPending(i, "write")
    /\ sched' = SettleScheduled([sched EXCEPT !.loads[i] =
                    [@ EXCEPT !.pc = "failed", !.error = ErrKvPut,
                              !.log = Append(@, Op("put", ScheduledKey(i), FALSE,
                                                  sched.loads[i].data, CACHE_TTL))]])
    /\ UNCHANGED <<env, cache, req, client, calc>>

Tasks == 1..Len(ScheduledSymbols)

NextScheduled ==
    \/ Scheduled
    \/ \E i \in Tasks : \E response \in Responses(SysSeries(ScheduledInterval)) :
            ScheduledFetch(i, response)
    \/ \E i \in Tasks : ScheduledPut(i)
    \/ \E i \in Tasks : ScheduledPutFails(i)
    \/ \E key \in Keys : Expire(key)

SpecScheduled == Init /\ [][NextScheduled]_vars

\* ------------------------------------------- the snapshot of loaded series

\* Instants and points of the series the snapshot is taken of.
MaxBatchTick == 2
MaxBatchPoints == 2

\* Every series of 1..MaxBatchPoints points with distinct instants, in any
\* order: the provider's points are not guaranteed to be chronological.
BatchSeries(interval) ==
    LET points == {Point(k * Half(interval), v) : k \in 0..MaxBatchTick, v \in ValueTokens}
    IN  {d \in SeqsUpTo(points, MaxBatchPoints) :
            /\ d # <<>>
            /\ \A i, j \in 1..Len(d) : i # j => d[i].timestamp # d[j].timestamp}

BatchInterval == "24h"
BatchSymbolLists == {<<"BTC">>, <<"BTC", "ETH">>, <<"ETH", "BTC">>, <<"BTC", "BTC">>}

\* The cache holds a series for each symbol; an entry may expire while a
\* request is being served, and the price source is then asked again.
InitBatch ==
    /\ env = [hasCache |-> TRUE, hasKey |-> TRUE]
    /\ \E series \in [Symbols -> BatchSeries(BatchInterval)] :
          cache = CacheOf(BatchInterval, series)
    /\ req = [r \in Slots |-> IdleReq]
    /\ client = IdleClient
    /\ sched = IdleSched
    /\ calc = IdleCalc

NextBatch ==
    \/ \E symbolList \in BatchSymbolLists : StartBatch(1, symbolList, BatchInterval)
    \/ \E i \in 1..MaxSyms : GetCachedPrice(1, i)
    \/ \E i \in 1..MaxSyms : \E response \in Responses(SysSeries(BatchInterval)) :
            FetchPriceFromAlchemy(1, i, response)
    \/ \E i \in 1..MaxSyms : SetCachedPrice(1, i)
    \/ Finish(1)
    \/ \E sym \in Symbols : Expire(generateCacheKey(sym, BatchInterval))

SpecBatch == InitBatch /\ [][NextBatch]_vars

\* -------------------------------------- the aggregation in floating point

\* A JavaScript number is a binary floating-point number, and each arithmetic
\* operation yields the number of the format nearest to its exact result
\* (ties to the even significand).  The format modelled here has a
\* significand of MantissaBits bits (a JavaScript number has 53) and an
\* unbounded exponent.  Timestamps are integers below 2^53: they and their
\* differences are exact.
MantissaBits == 4

RECURSIVE Pow2(_)
Pow2(k) == IF k = 0 THEN 1 ELSE 2 * Pow2(k - 1)

\* The integer nearest to n/d (n >= 0, d > 0), ties to even.
RoundHalfEven(n, d) ==
    LET q == n \div d
        r == n % d
    IN  IF 2 * r < d THEN q
        ELSE IF 2 * r > d THEN q + 1
        ELSE IF q % 2 = 0 THEN q ELSE q + 1

RECURSIVE RoundPos(_, _, _, _)
\* The number of the format nearest to (n/d) * (a/b), for n/d > 0 and a/b the
\* power of two that n/d has been scaled by so far.
RoundPos(n, d, a, b) ==
    IF n >= Pow2(MantissaBits) * d THEN RoundPos(n, 2 * d, 2 * a, b)
    ELSE IF n < Pow2(MantissaBits - 1) * d THEN RoundPos(2 * n, d, a, 2 * b)
    ELSE Norm(RoundHalfEven(n, d) * a, b)

\* The number of the format nearest to x.
Fl(x) ==
    IF x[2] = 0 \/ x[1] = 0 THEN x
    ELSE IF x[1] > 0 THEN RoundPos(x[1], x[2], 1, 1)
    ELSE Neg(RoundPos(-x[1], x[2], 1, 1))

FlAdd(a, b) == Fl(Add(a, b))
FlSub(a, b) == Fl(Sub(a, b))
FlMul(a, b) == Fl(Mul(a, b))
FlDiv(a, b) == Fl(Div(a, b))

\* availablePrices with the values as numbers of the format: parseFloat
\* yields the number nearest to the decimal.
AvailablePricesFl(priceData, minTimestamp, maxTimestamp) ==
    LET av == AvailablePrices(priceData, minTimestamp, maxTimestamp)
    IN  [i \in 1..Len(av) |-> <<av[i][1], Fl(av[i][2])>>]

\* lowerPoint[1] + valueDiff * ratio, each operation rounded.
InterpolateFl(availablePrices, timestamp) ==
    LET b == Bracket(availablePrices, timestamp)
        lowerPoint == b[1]
        upperPoint == b[2]
        timeDiff == upperPoint[1] - lowerPoint[1]
        valueDiff == FlSub(upperPoint[2], lowerPoint[2])
        ratio == IF timeDiff = 0 THEN Zero
                 ELSE FlDiv(Num(timestamp - lowerPoint[1]), Num(timeDiff))
    IN  FlAdd(lowerPoint[2], FlMul(valueDiff, ratio))

RECURSIVE SumSeqFl(_)
SumSeqFl(s) ==
    IF s = <<>> THEN Zero ELSE FlAdd(SumSeqFl(SubSeq(s, 1, Len(s) - 1)), s[Len(s)])

RECURSIVE WeightedSumFl(_, _, _)
WeightedSumFl(values, ratioList, n) ==
    IF n = 0 THEN Zero
    ELSE FlAdd(WeightedSumFl(values, ratioList, n - 1),
               FlDiv(FlMul(values[n], ratioList[n]), SumSeqFl(ratioList)))

\* processRatios: the sum of the numbers and each quotient, rounded.
processRatiosFl(ratios) ==
    LET numbers == [i \in 1..Len(ratios) |-> Fl(ToNumber(ratios[i]))]
    IN  IF \A i \in 1..Len(numbers) : IsInteger(numbers[i])
        THEN [i \in 1..Len(numbers) |-> FlDiv(numbers[i], SumSeqFl(numbers))]
        ELSE numbers

\* getWeightedPrices on the loaded series, each operation rounded.
WeightedDataFl(priceDataList, ratioList, interval) ==
    LET minTimestamp == MinTimestamp(priceDataList)
        maxTimestamp == MaxTimestamp(priceDataList)
        timestamps == Timeline(minTimestamp, maxTimestamp, getTimeStep(interval))
        n == Len(priceDataList)
        av == [i \in 1..n |-> AvailablePricesFl(priceDataList[i], minTimestamp, maxTimestamp)]
    IN  IF timestamps # <<>> /\ \E i \in 1..n : av[i] = <<>>
        THEN [ok |-> FALSE, error |-> "No price data available", data |-> <<>>]
        ELSE [ok |-> TRUE, error |-> "",
              data |-> [k \in 1..Len(timestamps) |->
                  [value |-> WeightedSumFl([i \in 1..n |-> InterpolateFl(av[i], timestamps[k])],
                                           ratioList, n),
                   timestamp |-> timestamps[k]]]]

\* The value strings of the series aggregated in floating point: each is a
\* number of the format.
FlValueTokens == {"0.5", "1", "10", "15"}

FlSeries(interval) ==
    UNION {{SeriesOf(T, f) : f \in [T -> FlValueTokens]} :
             T \in {U \in SUBSET Grid(interval) : Cardinality(U) \in 1..(MaxPoints - 1)}}

\* The series of one symbol have been loaded for an /aggregate request with
\* the weight 1 or 1.0.
InitFloat ==
    /\ env = [hasCache |-> TRUE, hasKey |-> TRUE]
    /\ cache = [k \in Keys |-> NoEntry]
    /\ req = [r \in Slots |-> IdleReq]
    /\ client = IdleClient
    /\ sched = IdleSched
    /\ \E interval \in ValidIntervals :
          \E d \in FlSeries(interval), ratios \in {<<"1">>, <<"1.0">>} :
              calc = [pc |-> "loaded", priceDataList |-> <<[symbol |-> "BTC", data |-> d]>>,
                      ratios |-> ratios, interval |-> interval, data |-> <<>>]

\* getWeightedPrices after Promise.all has resolved.
GetWeightedPrices ==
    /\ calc.pc = "loaded"
    /\ calc' = [calc EXCEPT !.pc = "done",
                   !.data = WeightedDataFl(calc.priceDataList, processRatiosFl(calc.ratios),
                                           calc.interval).data]
    /\ UNCHANGED <<env, cache, req, client, sched>>

NextFloat == GetWeightedPrices

SpecFloat == InitFloat /\ [][NextFloat]_vars

\* ------------------------------- loads and the pre-caching, concurrently

\* The requests that load BTC, the first symbol of the pre-caching: one load
\* (/price) or two loads of the same key (/batch with the symbol twice), at
\* the interval of the pre-caching or at another.
ConcSymbol == ScheduledSymbols[1]
ConcIntervals == {ScheduledInterval, "24h"}

\* What the price source answers to the tasks of the pre-caching: anything
\* for the symbol the requests load too, and an error for the other symbols.
ScheduledResponses(i) ==
    IF ScheduledSymbols[i] = ConcSymbol THEN Responses(SysSeries(ScheduledInterval))
    ELSE {[ok |-> FALSE, data |-> <<>>]}

NextConc ==
    \/ \E interval \in ConcIntervals : StartPrice(1, ConcSymbol, interval)
    \/ StartBatch(1, <<ConcSymbol, ConcSymbol>>, ScheduledInterval)
    \/ \E i \in 1..MaxSyms : GetCachedPrice(1, i)
    \/ \E i \in 1..MaxSyms : \E response \in Responses(SysSeries(req[1].interval)) :
            FetchPriceFromAlchemy(1, i, response)
    \/ \E i \in 1..MaxSyms : SetCachedPrice(1, i)
    \/ Finish(1)
    \/ Scheduled
    \/ \E i \in Tasks : \E response \in ScheduledResponses(i) : ScheduledFetch(i, response)
    \/ \E i \in Tasks : ScheduledPut(i)
    \/ \E i \in 1..MaxSyms : GetCachedPriceFails(1, i)
    \/ \E i \in 1..MaxSyms : SetCachedPriceFails(1, i)
    \/ \E i \in Tasks : ScheduledPutFails(i)
    \/ \E interval \in ConcIntervals : Expire(generateCacheKey(ConcSymbol, interval))

SpecConc == Init /\ [][NextConc]_vars

\* ------------------------------------------------------------------ claims

LoadsOf(r) == {req[r].loads[i] : i \in 1..Len(req[r].loads)}
AllLoads == UNION {LoadsOf(r) : r \in Slots}
OpNames(load) == [k \in 1..Len(load.log) |-> load.log[k].op]

\* The load's cache read returned an entry (a hit) / returned none (a miss).
IsHit(load) ==
    Len(load.log) >= 1 /\ load.log[1].op = "get" /\ load.log[1].ok /\ load.log[1].value # NoData
IsMiss(load) ==
    Len(load.log) >= 1 /\ load.log[1].op = "get" /\ load.log[1].ok /\ load.log[1].value = NoData

\* C1: a load whose cache read finds the key present is over with that read:
\* it returns exactly the series the read returned, and its only port
\* operation is that read (no fetch from the price source, no cache write).
C1_HitServedFromCache ==
    \A l \in AllLoads :
        IsHit(l) => /\ l.pc = "done"
                    /\ l.data = l.log[1].value
                    /\ OpNames(l) = <<"get">>

C1_Witness ==
    \E l \in AllLoads : IsHit(l) /\ l.pc = "done" /\ l.data.data # <<>>

\* C2: the port operations of a load are, in this order and each at most
\* once, a cache read, a fetch and a cache write; after a miss the fetch is
\* issued (unless the API key is missing, which fails the load), the write is
\* made only for a fetched series with points, it is of that series, under
\* the key price:<symbol>:<interval> and with the one TTL, and the load
\* returns that series.
C2_MissProtocol ==
    /\ \A r \in Slots : \A l \in LoadsOf(r) :
          /\ Len(l.log) <= 3
          /\ \A k \in 1..Len(l.log) : l.log[k].op = <<"get", "fetch", "put">>[k]
          /\ IsMiss(l) =>
                /\ l.pc = "fetch" => Len(l.log) = 1
                /\ Len(l.log) = 1 =>
                      IF env.hasKey THEN l.pc = "fetch"
                      ELSE l.pc = "failed" /\ l.error = ErrNoKey
                /\ l.pc = "write" <=>
                      (Len(l.log) = 2 /\ l.log[2].ok /\ l.log[2].value.data # <<>>)
                /\ Len(l.log) = 3 =>
                      /\ l.log[2].ok /\ l.log[2].value.data # <<>>
                      /\ l.log[3].value = l.log[2].value
                      /\ l.log[3].key = <<"price", l.symbol, req[r].interval>>
                      /\ l.log[3].ttl = CACHE_TTL
                /\ l.pc = "done" =>
                      Len(l.log) = 3 /\ l.log[3].ok /\ l.data = l.log[2].value
    /\ \A k \in Keys : cache[k].present => cache[k].ttl = CACHE_TTL

C2_Witness ==
    \E l \in AllLoads : IsMiss(l) /\ l.pc = "done" /\ OpNames(l) = <<"get", "fetch", "put">>

\* C3: when the caller's second getSeries call has returned, the two calls
\* have fetched from the price source exactly once between them, and the
\* second has returned the data of the first (or, the cache read itself
\* having thrown, an error and no data).
C3_Idempotent ==
    Len(client.results) = 2 =>
        /\ client.results[1].status = 200
        /\ client.results[1].fetches + client.results[2].fetches = 1
        /\ IF client.results[2].status = 200
           THEN client.results[2].data = client.results[1].data
           ELSE client.results[2].error = ErrKvGet /\ client.results[2].data = <<>>

C3_Witness ==
    /\ Len(client.results) = 2
    /\ client.results[2].status = 200
    /\ client.results[2].data # <<>>
    /\ client.results[1].fetches = 1

\* C4: a load whose fetch returns no points fails with the no-data error and
\* makes no cache write; no load ends successfully with an empty series, no
\* cache entry is an empty series and no /price response carries one.
C4_EmptyUpstream ==
    /\ \A l \in AllLoads :
          /\ (Len(l.log) >= 2 /\ l.log[2].op = "fetch" /\ l.log[2].ok
                /\ l.log[2].value.data = <<>>)
                => (l.pc = "failed" /\ l.error = ErrNoData /\ Len(l.log) = 2)
          /\ l.pc = "done" => l.data.data # <<>>
    /\ \A k \in Keys : cache[k].present => cache[k].value.data # <<>>
    /\ \A r \in Slots :
          (req[r].kind = "price" /\ req[r].resp.status = 200) => req[r].resp.data # <<>>

C4_Witness ==
    \E l \in AllLoads : l.pc = "failed" /\ l.error = ErrNoData /\ Len(l.log) = 2

\* The requests whose weights have been handed to the aggregation, and those
\* whose series are all loaded.
Aggregating == {r \in Slots : req[r].kind \in {"aggregate", "pnl"} /\ req[r].loads # <<>>}
Loaded == {r \in Aggregating : AllDone(req[r])}

WindowStart(r) == MinTimestamp(PriceDataList(req[r]))
WindowEnd(r) == MaxTimestamp(PriceDataList(req[r]))

\* C5 (as claimed): a request whose loaded series share no window
\* (start > end) is answered with an error that is not the no-data error,
\* never with a successful list.
C5_NoOverlapFails ==
    \A r \in Loaded :
        WindowStart(r) > WindowEnd(r) =>
            /\ req[r].resp.status \notin {0, 200}
            /\ req[r].resp.error \notin {ErrNoData, "No price data available"}

\* The values of the points of a series inside the window, and the least and
\* the greatest of them.
LeastOf(vs) == CHOOSE v \in vs : \A w \in vs : Leq(v, w)
GreatestOf(vs) == CHOOSE v \in vs : \A w \in vs : Leq(w, v)

Clamped(availablePrices, timestamp) ==
    LET n == Len(availablePrices)
        vs == {availablePrices[i][2] : i \in 1..n}
        v == Interpolate(availablePrices, timestamp)
    IN  /\ timestamp < availablePrices[1][1] => v = availablePrices[1][2]
        /\ timestamp > availablePrices[n][1] => v = availablePrices[n][2]
        /\ IsFinite(v) /\ Leq(LeastOf(vs), v) /\ Leq(v, GreatestOf(vs))

\* C6 (as claimed): at every generated timestamp the value used for a series
\* is that of its nearest in-window point when the timestamp lies before the
\* first or after the last of them, and always lies between the least and
\* the greatest in-window value of the series.
C6_InterpolationClamps ==
    \A r \in Loaded :
        LET list == PriceDataList(req[r])
            timestamps == Timeline(WindowStart(r), WindowEnd(r), getTimeStep(req[r].interval))
        IN  \A k \in 1..Len(timestamps) : \A i \in 1..Len(list) :
                LET av == AvailablePrices(list[i], WindowStart(r), WindowEnd(r))
                IN  av # <<>> => Clamped(av, timestamps[k])

AllIntegers(numbers) == \A i \in 1..Len(numbers) : IsInteger(numbers[i])

\* C7 (as claimed): the weights handed to the aggregation sum to 1.
C7_WeightsSumToOne ==
    \A r \in Aggregating : SumSeq(req[r].ratioList) = Num(1)

\* C7 (amended): all-integer weights with a sum that is not zero are handed
\* to the aggregation divided by that sum, so that they sum to 1; weights
\* with a component that is not an integer are handed over as they were
\* given, and sum to what they were given to sum to.
C7_IntegerWeightsNormalized ==
    \A r \in Aggregating :
        LET numbers == MapToNumber(req[r].ratios)
        IN  IF AllIntegers(numbers)
            THEN SumSeq(numbers) # Zero => SumSeq(req[r].ratioList) = Num(1)
            ELSE req[r].ratioList = numbers

C7_Witness ==
    \E r \in Aggregating :
        /\ AllIntegers(MapToNumber(req[r].ratios))
        /\ Len(req[r].ratios) = 2
        /\ SumSeq(MapToNumber(req[r].ratios)) = Num(100)
        /\ SumSeq(req[r].ratioList) = Num(1)

\* C9 (as claimed): /aggregate/pnl answers with a gain/loss only when the
\* first aligned value is not zero, and then pnl is
\* (lastValue - firstValue) / firstValue * 100 of the first and the last
\* aligned point; with a zero first value it fails.
C9_ZeroBaselineFails ==
    \A r \in Loaded :
        req[r].kind = "pnl" =>
            LET wd == WeightedData(PriceDataList(req[r]), req[r].ratioList, "30d")
                d == wd.data
            IN  (wd.ok /\ d # <<>>) =>
                    IF d[1].value = Zero
                    THEN req[r].resp.status # 200 /\ req[r].resp.pnl = <<>>
                    ELSE /\ req[r].resp.status = 200
                         /\ req[r].resp.pnl[1].pnl =
                              Mul(Div(Sub(d[Len(d)].value, d[1].value), d[1].value), Num(100))

\* C8: an /aggregate or /aggregate/pnl request whose numbers of weights and
\* of symbols differ is answered 400 and has no load at all: it makes no
\* cache read, no fetch and no cache write.
C8_CountMismatch ==
    \A r \in Slots :
        (req[r].kind \in {"aggregate", "pnl"} /\ Len(req[r].symbols) # Len(req[r].ratios))
            => (req[r].resp.status = 400 /\ req[r].loads = <<>>)

C8_Witness ==
    \E r \in Slots :
        /\ req[r].kind \in {"aggregate", "pnl"}
        /\ req[r].symbols # <<>> /\ req[r].ratios # <<>>
        /\ Len(req[r].symbols) # Len(req[r].ratios)
        /\ req[r].resp.status = 400

\* C10: in a multi-symbol request every load is started at once; a result
\* (200) is computed only when every load has ended successfully; and when a
\* load has failed the response is an error that carries no aligned point,
\* no gain/loss and no value.
C10_Join ==
    \A r \in Slots :
        req[r].kind \in {"aggregate", "pnl", "batch"} =>
            /\ \A l \in LoadsOf(r) : l.pc # "idle"
            /\ req[r].resp.status = 200 => AllDone(req[r])
            /\ (req[r].resp.status = 0 /\ req[r].loads # <<>>) => ~AllDone(req[r])
            /\ Failed(req[r]) # {} =>
                  /\ req[r].resp.status = 500
                  /\ req[r].resp.data = <<>>
                  /\ req[r].resp.pnl = <<>>
                  /\ req[r].resp.values = {}

C10_Witness ==
    \E r \in Slots :
        /\ req[r].kind \in {"aggregate", "pnl", "batch"}
        /\ \E i, j \in 1..Len(req[r].loads) :
              req[r].loads[i].pc = "done" /\ req[r].loads[j].pc = "failed"
        /\ req[r].resp.status = 500

\* The tasks of the scheduled run whose fetch returned a series with points
\* and whose cache write was made.
Refreshed == {i \in 1..Len(sched.loads) : sched.loads[i].pc = "done"}

\* C11: the scheduled run never rejects, and it resolves exactly when every
\* task is over, whichever of them failed; a task that is over successfully
\* has made a fetch and then a put and no cache read, the put is of the
\* series its fetch returned, under price:<its symbol>:30d, and that series
\* is the cache's entry for the key from then on (until the entry expires);
\* a task that failed is over with its own error and has written nothing.
C11_RefreshIsolation ==
    /\ sched.state \in {"idle", "running", "resolved"}
    /\ sched.state # "idle" =>
          /\ Len(sched.loads) = Len(ScheduledSymbols)
          /\ \A i \in 1..Len(sched.loads) : sched.loads[i].symbol = ScheduledSymbols[i]
          /\ sched.state = "resolved" <=>
                \A i \in 1..Len(sched.loads) : sched.loads[i].pc \in {"done", "failed"}
    /\ \A i \in 1..Len(sched.loads) :
          LET l == sched.loads[i]
              key == <<"price", ScheduledSymbols[i], "30d">>
          IN  /\ l.pc \in {"fetch", "write", "done", "failed"}
              /\ \A k \in 1..Len(l.log) : l.log[k].op # "get" /\ l.log[k].key = key
              /\ l.pc = "write" =>
                    (env.hasCache /\ OpNames(l) = <<"fetch">> /\ l.log[1].ok
                        /\ l.log[1].value.data # <<>> /\ l.data = l.log[1].value)
              /\ l.pc = "done" =>
                    /\ OpNames(l) = <<"fetch", "put">>
                    /\ l.log[1].ok /\ l.log[1].value.data # <<>>
                    /\ l.log[2].ok /\ l.log[2].value = l.log[1].value
                    /\ l.log[2].ttl = CACHE_TTL
                    /\ cache[key].present => cache[key].value = l.log[1].value
              /\ l.pc = "failed" =>
                    /\ l.error \in {ErrNoKey, ErrFetch, ErrNoData, ErrNoCache, ErrKvPut}
                    /\ \A k \in 1..Len(l.log) : l.log[k].op = "put" => ~l.log[k].ok

\* One task has failed at its fetch and another at its cache write, and the
\* two others have stored what they fetched: the run has resolved.
C11_Witness ==
    /\ sched.state = "resolved"
    /\ \E i, j \in Refreshed : i # j /\ \A m \in {i, j} :
          /\ cache[ScheduledKey(m)].present
          /\ cache[ScheduledKey(m)].value = sched.loads[m].log[1].value
    /\ \E i \in 1..Len(sched.loads) :
          sched.loads[i].pc = "failed" /\ sched.loads[i].error = ErrFetch
    /\ \E i \in 1..Len(sched.loads) :
          sched.loads[i].pc = "failed" /\ sched.loads[i].error = ErrKvPut

\* C12 (as claimed): a request that ends with the no-data error (the price
\* source returned no points, or a series has no point in the common window)
\* is answered with a client error (4xx), and one that ends with a failed
\* fetch or a missing API key or cache binding with a server error (5xx).
C12_ErrorClasses ==
    \A r \in Slots :
        req[r].resp.status # 0 =>
            /\ req[r].resp.error \in {ErrNoData, "No price data available"}
                  => req[r].resp.status \in 400..499
            /\ req[r].resp.error \in {ErrFetch, ErrNoKey, ErrNoCache}
                  => req[r].resp.status \in 500..599

\* The weight tokens that Number() does not read as a number.
NonNumeric(ratios) == {k \in 1..Len(ratios) : ToNumber(ratios[k]) = NaN}

\* C13 (as claimed): an /aggregate or /aggregate/pnl request with a weight
\* that is not a number is answered 400 and has no load: it makes no cache
\* read and no fetch, and its weights reach no arithmetic.
C13_NonNumericRejected ==
    \A r \in Slots :
        (req[r].kind \in {"aggregate", "pnl"} /\ NonNumeric(req[r].ratios) # {})
            => (req[r].resp.status = 400 /\ req[r].loads = <<>>)

\* The last point, by position, of the series that load i of request r returned.
LatestPoint(r, i) == req[r].loads[i].data.data[Len(req[r].loads[i].data.data)]

Snapshots == {r \in Slots : req[r].kind = "batch" /\ req[r].resp.status = 200}

\* C14 (as claimed): the snapshot's timestamp is the greatest timestamp of
\* the series' last points, and values holds, for every requested symbol,
\* its lower-cased name with the value of the last point of its own series.
C14_EachSymbolOwnLatest ==
    \A r \in Snapshots :
        LET n == Len(req[r].loads)
        IN  /\ req[r].resp.timestamp = SetMax({LatestPoint(r, i).timestamp : i \in 1..n})
            /\ \A i \in 1..n :
                  <<ToLowerCase(req[r].symbols[i]), ParseFloat(LatestPoint(r, i).value)>>
                      \in req[r].resp.values

\* C14 (amended): the timestamp is as claimed; values holds exactly one value
\* for each lower-cased name of a requested symbol and no other name, and
\* the value is that of the last point, by position, of the series loaded
\* for the last requested symbol with that lower-cased name.
C14_BatchSnapshot ==
    \A r \in Snapshots :
        LET n == Len(req[r].loads)
            lastOf(name) == SetMax({i \in 1..n : ToLowerCase(req[r].symbols[i]) = name})
        IN  /\ n >= 1
            /\ req[r].resp.timestamp = SetMax({LatestPoint(r, i).timestamp : i \in 1..n})
            /\ {e[1] : e \in req[r].resp.values} = {ToLowerCase(req[r].symbols[i]) : i \in 1..n}
            /\ \A e \in req[r].resp.values :
                  e[2] = ParseFloat(LatestPoint(r, lastOf(e[1])).value)

\* A snapshot of two series whose last points are not their newest: the last
\* point of the first is later than that of the second and has another value.
C14_Witness ==
    \E r \in Snapshots :
        /\ req[r].symbols = <<"BTC", "ETH">>
        /\ \A i \in 1..2 : LatestPoint(r, i).timestamp < SetMax(TimestampsOf(req[r].loads[i].data))
        /\ req[r].resp.values = {<<"btc", Num(10)>>, <<"eth", Num(0)>>}
        /\ LatestPoint(r, 1).timestamp > LatestPoint(r, 2).timestamp
        /\ req[r].resp.timestamp = LatestPoint(r, 1).timestamp

\* The linear interpolation of a series at t, for t between its first and
\* its last instant: the value of the point at t if there is one, and else
\* v_lo + (v_hi - v_lo) * (t - t_lo) / (t_hi - t_lo) for the nearest points
\* on either side.
LinearAtFl(priceData, t) ==
    LET map == PriceMap(priceData)
        lo == SetMax({u \in DOMAIN map : u <= t})
        hi == SetMin({u \in DOMAIN map : u >= t})
    IN  IF t \in DOMAIN map THEN Fl(map[t])
        ELSE FlAdd(Fl(map[lo]),
                   FlMul(FlSub(Fl(map[hi]), Fl(map[lo])), FlDiv(Num(t - lo), Num(hi - lo))))

\* C15 (as claimed): the aggregation of one series with weight 1 emits, at
\* every generated timestamp, the linear interpolation of the series there,
\* and so at a timestamp that is a point's the value of that point.
C15_SingleSymbolInterpolation ==
    calc.pc = "done" =>
        \A k \in 1..Len(calc.data) :
            calc.data[k].value = LinearAtFl(calc.priceDataList[1], calc.data[k].timestamp)

\* The /aggregate requests whose series are all loaded and share a window.
Overlapping ==
    {r \in Loaded : req[r].kind = "aggregate" /\ WindowStart(r) <= WindowEnd(r)}

\* Every series of the request has a point inside the common window.
EverySeriesInWindow(r) ==
    \A i \in 1..Len(req[r].loads) :
        \E t \in TimestampsOf(req[r].loads[i].data) : WindowStart(r) <= t /\ t <= WindowEnd(r)

Step(r) ==
    CASE req[r].interval = "24h" -> 300000
      [] req[r].interval = "7d" -> 3600000
      [] req[r].interval = "30d" -> 86400000

\* The aligned points of the response are at start, start + step, ..., up to
\* the last such instant that is not after end.
OnTimeline(r) ==
    LET d == req[r].resp.data
    IN  /\ req[r].resp.status = 200
        /\ Len(d) = (WindowEnd(r) - WindowStart(r)) \div Step(r) + 1
        /\ Len(d) >= 1
        /\ d[1].timestamp = WindowStart(r)
        /\ \A k \in 1..Len(d) :
              /\ d[k].timestamp = WindowStart(r) + (k - 1) * Step(r)
              /\ d[k].timestamp <= WindowEnd(r)
        /\ \A k \in 1..(Len(d) - 1) : d[k].timestamp < d[k + 1].timestamp
        /\ d[Len(d)].timestamp + Step(r) > WindowEnd(r)

\* C16 (as claimed): whenever start <= end the response carries the aligned
\* points of the regular timeline, floor((end - start) / step) + 1 of them.
C16_TimelineWheneverOverlap == \A r \in Overlapping : OnTimeline(r)

\* C16 (amended): whenever start <= end and every series has a point inside
\* [start, end], the response carries the aligned points of the regular
\* timeline; when some series has no point inside the window the request
\* fails with the no-data error and carries no point.
C16_RegularTimeline ==
    \A r \in Overlapping :
        IF EverySeriesInWindow(r) THEN OnTimeline(r)
        ELSE /\ req[r].resp.status = 500
             /\ req[r].resp.error = "No price data available"
             /\ req[r].resp.data = <<>>

\* A window of one step and a half: two aligned points, the last before end.
C16_Witness ==
    \E r \in Overlapping :
        /\ Len(req[r].loads) = 2
        /\ OnTimeline(r)
        /\ Len(req[r].resp.data) = 2
        /\ req[r].resp.data[2].timestamp < WindowEnd(r)

\* The complete series the price source returns for a key, as the worker
\* keeps them.
UpstreamSeries(key) ==
    {[symbol |-> key[2], data |-> d] : d \in SysSeries(key[3])}

\* The fetch a load or task has made returned the series `value` for `key`.
Fetched(l, key, value) ==
    \E k \in 1..Len(l.log) :
        l.log[k].op = "fetch" /\ l.log[k].ok /\ l.log[k].key = key /\ l.log[k].value = value

\* C17: whatever the interleaving of the reads, fetches and writes of the
\* loads of a request and of the tasks of the pre-caching, a present cache
\* entry is a complete series with points that the price source returns for
\* the entry's own symbol and interval; a load that has ended successfully
\* returns a series with points that is either what its cache read returned
\* for its key or what its own fetch for its key returned; and every write
\* is of the series that the writer's own fetch returned for the same key.
C17_ConcurrentLoadsBenign ==
    /\ \A key \in Keys :
          cache[key].present =>
              /\ cache[key].value.data # <<>>
              /\ cache[key].value \in UpstreamSeries(key)
              /\ cache[key].ttl = CACHE_TTL
    /\ \A i \in 1..Len(req[1].loads) :
          LET l == req[1].loads[i]
              key == <<"price", l.symbol, req[1].interval>>
          IN  /\ l.pc = "done" =>
                    /\ l.data.data # <<>>
                    /\ l.data \in UpstreamSeries(key)
                    /\ \/ IsHit(l) /\ l.log[1].key = key /\ l.data = l.log[1].value
                       \/ IsMiss(l) /\ Fetched(l, key, l.data)
              /\ \A k \in 1..Len(l.log) :
                    l.log[k].op = "put" => (l.log[k].key = key /\ Fetched(l, key, l.log[k].value))
    /\ \A i \in 1..Len(sched.loads) :
          LET l == sched.loads[i]
              key == <<"price", l.symbol, "30d">>
          IN  \A k \in 1..Len(l.log) :
                  l.log[k].op = "put" => (l.log[k].key = key /\ Fetched(l, key, l.log[k].value))

\* Two loads of one request have both missed, fetched different series and
\* written them, and the task of the pre-caching has written the same key
\* too: the entry is the whole series of one of the writers.
C17_Witness ==
    /\ Len(req[1].loads) = 2
    /\ \A i \in 1..2 :
          /\ req[1].loads[i].pc = "done"
          /\ OpNames(req[1].loads[i]) = <<"get", "fetch", "put">>
          /\ IsMiss(req[1].loads[i])
    /\ req[1].loads[1].data # req[1].loads[2].data
    /\ Len(sched.loads) >= 1
    /\ sched.loads[1].pc = "done"
    /\ cache[<<"price", "BTC", "30d">>].present
    /\ cache[<<"price", "BTC", "30d">>].value = req[1].loads[2].data

====
